---- MODULE Spec2Model ----
(***************************************************************************)
(* Model of the live audio transcription pipeline:                         *)
(*   - PCM16Encoder        (lib/encoder)        : SpecEnc                  *)
(*   - OpenAIRealtimeSTT   (src/lib/stt.ts)     : SpecSTT, with the page's *)
(*     four callbacks (src/app/page.tsx) as the callback sink              *)
(*   - AudioManager        (lib/audio)          : SpecAudio                *)
(* JavaScript strings are TLA+ strings; null is the value Null.            *)
(***************************************************************************)
EXTENDS Integers, Naturals, Sequences, FiniteSets, TLC

VARIABLES
    \* ---- PCM16Encoder harness
    encIn,              \* the Float32Array handed to encode / validateAudioData
    encOut,             \* [done, pcm]: the Int16Array encode returned
    encValid,           \* [done, ok, warned]: what validateAudioData returned and logged
    \* ---- OpenAIRealtimeSTT instance fields
    ws,                 \* this.ws: NoSocket or a socket id
    isConnected,        \* this.isConnected
    reconnectAttempts,  \* this.reconnectAttempts
    clientSecret,       \* this.clientSecret
    connectPc,          \* position of the in-flight connect(): "idle" | "fetching"
    callbacks,          \* this.callbacks: "page" (page.tsx 86-91) or "recorder"
    \* ---- WebSocket objects created by connect()
    readyState,         \* sequence: readyState of every socket created so far
    wasOpened,          \* sequence: whether the socket ever reached OPEN
    wire,               \* sequence: per socket, the frames handed to send() and accepted
    timers,             \* sequence: pending setTimeout callbacks of handleOpen, each the
                        \* socket whose open event set it, in the order they were set
    \* ---- what the last client step did
    sttLast,            \* [op, sock, input, conn, held, threw, calls, sends, caught]
    \* ---- page state driven by the four callbacks
    finalTranscript,
    partialTranscript,
    error,
    isRecording,
    connectionStatus,
    \* ---- AudioManager instance fields
    audioContext,       \* this.audioContext: NoObject or a context id
    mediaStream,        \* this.mediaStream: NoObject or a stream id
    workletNode,        \* this.workletNode: NoObject or a node id
    isInitialized,      \* this.isInitialized
    \* ---- platform objects created by the AudioManager
    ctxState,           \* sequence: AudioContext.state attribute of every context
    ctxCtlClosed,       \* sequence: the context's control-thread-state flag is closed
    trackLive,          \* sequence: per MediaStream, its track has not been stopped
    nodeConnected,      \* sequence: per AudioWorkletNode, still connected in the graph
    \* ---- in-flight async AudioManager calls
    initPc,             \* position of the in-flight initialize(): "idle" | ...
    cleanups,           \* sequence: per cleanup() call, its record [pc, ctx]
    audLast,            \* [op, threw, prev, overlapped, name]
    \* ---- the page's recording sequence (page.tsx 61-149)
    pagePc,             \* position of the in-flight handleStartRecording, or "idle"
    pageErr,            \* the message of the error the catch block of the last
                        \* handleStartRecording received, Null if none
    sttClientRef,       \* sttClientRef.current: 0 (null) or the number of the client
    staleSockets,       \* sockets created by clients the page built before this one
    starts,             \* handleStartRecording calls so far
    \* ---- the worklet's message ports (audio-processor.js, part_001 59-64)
    port,               \* sequence: messages posted by process(), not yet delivered
    produced,           \* number of non-empty quanta process() has copied so far
    sinkLog,            \* sequence: [node, audioData] of every sink call so far
    pageLast            \* [op, node, data, posted, acted]: the last page or port step

encVars   == <<encIn, encOut, encValid>>
sttFields == <<ws, isConnected, reconnectAttempts, clientSecret, connectPc>>
sockVars  == <<readyState, wasOpened, wire, timers>>
uiVars    == <<finalTranscript, partialTranscript, error, isRecording, connectionStatus>>
sttVars   == <<sttFields, callbacks, sockVars, sttLast, uiVars>>
audFields == <<audioContext, mediaStream, workletNode, isInitialized>>
audObjs   == <<ctxState, ctxCtlClosed, trackLive, nodeConnected>>
audVars   == <<audFields, audObjs, initPc, cleanups, audLast>>
pageVars  == <<pagePc, pageErr, sttClientRef, staleSockets, starts>>
pipeVars  == <<port, produced, sinkLog, pageLast>>
vars      == <<encVars, sttVars, audVars, pageVars, pipeVars>>
nonClient == <<callbacks, encVars, audVars, pageVars, pipeVars>>
nonAudio  == <<encVars, sttVars, pageVars, pipeVars>>

Null     == "<null>"

(***************************************************************************)
(* Bounds of the model.                                                    *)
(***************************************************************************)
SampleDen == 4      \* samples are the rationals n / SampleDen
MaxNumer  == 6      \* n ranges over -MaxNumer .. MaxNumer (beyond +-1.0 too)
MaxLen    == 2      \* longest sample buffer handed to encode

(***************************************************************************)
(* Float samples.  A sample is NaN or the rational n / SampleDen.          *)
(***************************************************************************)
NaN       == [nan |-> TRUE, n |-> 0]
Num(k)    == [nan |-> FALSE, n |-> k]
Samples   == {NaN} \cup {Num(k) : k \in -MaxNumer .. MaxNumer}
RECURSIVE BuffersOfLen(_)
BuffersOfLen(l) ==
    IF l = 0 THEN {<<>>}
    ELSE {Append(b, s) : b \in BuffersOfLen(l - 1), s \in Samples}
Buffers   == UNION {BuffersOfLen(l) : l \in 0 .. MaxLen}

Int16Min  == -32768
Int16Max  == 32767
NegScale  == 32768
PosScale  == 32767

\* Math.min / Math.max: NaN if either argument is NaN
MathMin(a, b) == IF a.nan \/ b.nan THEN NaN ELSE IF a.n <= b.n THEN a ELSE b
MathMax(a, b) == IF a.nan \/ b.nan THEN NaN ELSE IF a.n >= b.n THEN a ELSE b

\* const clamped = Math.max(-1.0, Math.min(1.0, float32Array[i]))
Clamp(x) == MathMax(Num(-SampleDen), MathMin(Num(SampleDen), x))

\* integer part of p / q (q > 0), rounding toward zero
TruncDiv(p, q) == IF p >= 0 THEN p \div q ELSE -((-p) \div q)

\* storing a Number into an Int16Array element: NaN -> 0, else truncate and
\* wrap modulo 2^16 into the signed range
ToInt16(x, den) ==
    IF x.nan THEN 0
    ELSE LET t == TruncDiv(x.n, den)
             u == t % 65536
         IN  IF u >= 32768 THEN u - 65536 ELSE u

\* clamped < 0 ? clamped * 0x8000 : clamped * 0x7FFF   (NaN < 0 is false)
ScaleSample_sameScale(clamped) ==
    IF clamped.nan THEN NaN ELSE Num(clamped.n * PosScale)
ScaleSample(clamped) ==
    IF clamped.nan THEN NaN
    ELSE IF clamped.n < 0 THEN Num(clamped.n * NegScale)
    ELSE Num(clamped.n * PosScale)

encodeSample(x) == ToInt16(ScaleSample(Clamp(x)), SampleDen)

\* a value handed to the encoder: a Float32Array of samples, or something else
F32(samples)    == [f32 |-> TRUE, samples |-> samples]
NotFloat32Array == [f32 |-> FALSE, samples |-> <<>>]

\* PCM16Encoder.encode: a new Int16Array of the input's length, filled in order
encode_reversed(float32Array) ==
    [i \in 1 .. Len(float32Array.samples) |->
        encodeSample(float32Array.samples[Len(float32Array.samples) + 1 - i])]
encode(float32Array) ==
    [i \in 1 .. Len(float32Array.samples) |-> encodeSample(float32Array.samples[i])]

\* PCM16Encoder.validateAudioData: false only for a non-Float32Array; a silent
\* or NaN-only buffer is warned about and accepted
hasValidSamples(audioData) ==
    \E i \in 1 .. Len(audioData.samples) :
        /\ ~audioData.samples[i].nan
        /\ audioData.samples[i].n # 0
        /\ \/ audioData.samples[i].n * 10000 > SampleDen
           \/ audioData.samples[i].n * 10000 < -SampleDen
validateAudioData(audioData) == audioData.f32

(***************************************************************************)
(* The bytes of an Int16Array's buffer (little-endian) and btoa.           *)
(***************************************************************************)
Int16Bytes(v) == LET u == v % 65536 IN <<u % 256, u \div 256>>
RECURSIVE BufferBytes(_)
BufferBytes(pcm16) ==
    IF Len(pcm16) = 0 THEN <<>>
    ELSE Int16Bytes(Head(pcm16)) \o BufferBytes(Tail(pcm16))

B64Alphabet == "ABCDEFGHIJKLMNOPQRSTUVWXYZabcdefghijklmnopqrstuvwxyz0123456789+/"
B64Char(i) == SubSeq(B64Alphabet, i + 1, i + 1)
RECURSIVE btoa(_)
btoa(bytes) ==
    IF Len(bytes) = 0 THEN ""
    ELSE IF Len(bytes) = 1 THEN
        B64Char(bytes[1] \div 4) \o B64Char((bytes[1] % 4) * 16) \o "=="
    ELSE IF Len(bytes) = 2 THEN
        B64Char(bytes[1] \div 4)
        \o B64Char((bytes[1] % 4) * 16 + bytes[2] \div 16)
        \o B64Char((bytes[2] % 16) * 4) \o "="
    ELSE
        B64Char(bytes[1] \div 4)
        \o B64Char((bytes[1] % 4) * 16 + bytes[2] \div 16)
        \o B64Char((bytes[2] % 16) * 4 + bytes[3] \div 64)
        \o B64Char(bytes[3] % 64)
        \o btoa(SubSeq(bytes, 4, Len(bytes)))
arrayBufferToBase64(buffer) == btoa(BufferBytes(buffer))

(***************************************************************************)
(* OpenAIRealtimeSTT (src/lib/stt.ts) and the page's callbacks.            *)
(***************************************************************************)
MaxSockets       == 1    \* sockets one client instance creates
MaxAppends       == 2    \* append frames transmitted on all sockets together
MaxTranscriptLen == 7    \* a Final is delivered while the final text is shorter
MaxSessions      == 2    \* sockets one instance creates when connect() is called again

NoSocket  == 0
Sockets   == 1 .. Len(readyState)

Includes(s, sub) ==
    \E i \in 0 .. (Len(s) - Len(sub)) : SubSeq(s, i + 1, i + Len(sub)) = sub

\* ---- the credential endpoint's answers (src/unnamed/part_000, spec section 6/8)
KeyNotConfigured  == "OpenAI API key not configured"
ScenarioMissing   == "missing OPENAI_API_KEY"
ObjectError       == "<object>"       \* an error member that is not a string
TokenResponses ==
    {[kind |-> "reject"]}                                   \* fetch() rejects
    \cup {[kind |-> "http", ok |-> FALSE, error |-> e] :
            e \in {KeyNotConfigured, ScenarioMissing, "Internal server error",
                   ObjectError, Null}}                      \* Null: body is not JSON
    \cup {[kind |-> "http", ok |-> TRUE, json |-> TRUE, client_secret |-> c] :
            c \in {"ek_123", Null}}                         \* Null: no client_secret
    \cup {[kind |-> "http", ok |-> TRUE, json |-> FALSE, client_secret |-> Null]}

GuidanceMessage ==
    "Please set your OPENAI_API_KEY in .env.local file. Get your API key from https://platform.openai.com/account/api-keys"
GenericPrefix   == "Failed to get OpenAI token: "

\* errorData.error?.includes('API key') || errorData.error?.includes('your_openai_api_key')
HasCredentialMarker(e) ==
    e # Null /\ (Includes(e, "API key") \/ Includes(e, "your_openai_api_key"))

\* the message of the Error thrown inside connect()'s try block for a token
\* response, Null when nothing is thrown (stt.ts 25-42): first the fetch and the
\* non-OK branch, then the client_secret check
requestError(resp) ==
    IF resp.kind = "reject" THEN "Failed to fetch"
    ELSE IF ~resp.ok THEN
        IF resp.error = ObjectError THEN "errorData.error?.includes is not a function"
        ELSE IF HasCredentialMarker(resp.error) THEN GuidanceMessage
        ELSE GenericPrefix \o (IF resp.error = Null THEN "Unknown error" ELSE resp.error)
    ELSE IF ~resp.json THEN "Unexpected token < in JSON"
    ELSE Null
tokenError_noSecretCheck(resp) == requestError(resp)
tokenError(resp) ==
    IF requestError(resp) # Null THEN requestError(resp)
    ELSE IF resp.client_secret = Null THEN "No client_secret received from server"
    ELSE Null

\* ---- callback invocations and the page's handlers (page.tsx 43-59)
Call(cb, arg) == [cb |-> cb, arg |-> arg]
UI == [final |-> finalTranscript, partial |-> partialTranscript, error |-> error,
       isRecording |-> isRecording, connectionStatus |-> connectionStatus]

handlePartialTranscript(u, text) == [u EXCEPT !.partial = text]
handleFinalTranscript_keepsPartial(u, text) ==
    [u EXCEPT !.final = u.final \o text \o " "]
handleFinalTranscript(u, text) ==
    [u EXCEPT !.final = u.final \o text \o " ", !.partial = ""]
handleSTTError(u, e) == [u EXCEPT !.error = e, !.isRecording = FALSE]
handleConnectionStateChange(u, connected) ==
    [u EXCEPT !.connectionStatus = IF connected THEN "connected" ELSE "disconnected"]

Deliver(u, c) ==
    IF c.cb = "onPartialTranscript" THEN handlePartialTranscript(u, c.arg)
    ELSE IF c.cb = "onFinalTranscript" THEN handleFinalTranscript(u, c.arg)
    ELSE IF c.cb = "onError" THEN handleSTTError(u, c.arg)
    ELSE handleConnectionStateChange(u, c.arg)
RECURSIVE DeliverAll(_, _)
DeliverAll(u, calls) ==
    IF calls = <<>> THEN u ELSE DeliverAll(Deliver(u, Head(calls)), Tail(calls))

\* the callbacks a handler invoked: the page's handlers run in order when the
\* client was constructed with them; a recording sink keeps them in sttLast only
CallbacksFrom(ui, calls) ==
    LET u == IF callbacks = "page" THEN DeliverAll(ui, calls) ELSE ui IN
    /\ finalTranscript' = u.final
    /\ partialTranscript' = u.partial
    /\ error' = u.error
    /\ isRecording' = u.isRecording
    /\ connectionStatus' = u.connectionStatus
Callbacks(calls) == CallbacksFrom(UI, calls)

\* the record of one client step: the operation, the socket it concerned, its
\* input, isConnected and this.ws before it, whether it threw, the callbacks it
\* invoked, the frames it called send() with and whether one of these send()
\* calls threw into a catch block of the step
Last(op, sock, input, threw, calls, sends) ==
    [op |-> op, sock |-> sock, input |-> input, conn |-> isConnected, held |-> ws,
     threw |-> threw, calls |-> calls, sends |-> sends, caught |-> FALSE]

\* the append frames transmitted so far, on all sockets
RECURSIVE AppendsOn(_, _)
AppendsOn(w, n) ==
    IF n = 0 THEN 0
    ELSE Cardinality({i \in 1 .. Len(w[n]) : w[n][i].type = "input_audio_buffer.append"})
         + AppendsOn(w, n - 1)
WireAppends == AppendsOn(wire, Len(wire))

\* ---- WebSocket.send(frame) on socket s: throws while CONNECTING, transmits
\* while OPEN, discards while CLOSING or CLOSED
SendThrows(s) == readyState[s] = "CONNECTING"
Transmit(w, s, frames) ==
    IF readyState[s] = "OPEN" THEN [w EXCEPT ![s] = w[s] \o frames] ELSE w

\* ---- connect(): up to the fetch, then from the response on (stt.ts 22-59)
connectCall(cap) ==
    /\ connectPc = "idle"
    /\ Len(readyState) < cap
    /\ connectPc' = "fetching"
    /\ sttLast' = Last("connect", NoSocket, Null, FALSE, <<>>, <<>>)
    /\ UNCHANGED <<ws, isConnected, reconnectAttempts, clientSecret, sockVars>>
connectStartUpTo(cap) == connectCall(cap) /\ UNCHANGED uiVars /\ UNCHANGED nonClient
connectStart == connectStartUpTo(MaxSockets)

connectSettle(resp) ==
    /\ connectPc = "fetching"
    /\ connectPc' = "idle"
    /\ LET msg == tokenError(resp) IN
       IF msg # Null
       THEN /\ clientSecret' = IF resp.kind = "http" /\ resp.ok /\ resp.json
                               THEN resp.client_secret ELSE clientSecret
            /\ sttLast' = Last("connect.settle", NoSocket, resp, TRUE,
                              <<Call("onError", msg)>>, <<>>)
            /\ Callbacks(<<Call("onError", msg)>>)
            /\ UNCHANGED <<ws, sockVars>>
       ELSE /\ clientSecret' = resp.client_secret
            /\ readyState' = Append(readyState, "CONNECTING")
            /\ wasOpened' = Append(wasOpened, FALSE)
            /\ wire' = Append(wire, <<>>)
            /\ ws' = Len(readyState) + 1
            /\ sttLast' = Last("connect.settle", Len(readyState) + 1, resp, FALSE, <<>>, <<>>)
            /\ UNCHANGED <<timers, uiVars>>
    /\ UNCHANGED <<isConnected, reconnectAttempts>>
    /\ UNCHANGED nonClient

\* ---- disconnect() (stt.ts 61-68); close() moves CONNECTING and OPEN to CLOSING
CloseCalled_noClose(rs, s) == rs
CloseCalled(rs, s) ==
    IF rs[s] \in {"CONNECTING", "OPEN"} THEN [rs EXCEPT ![s] = "CLOSING"] ELSE rs
disconnectCall(ui) ==
    /\ IF ws # NoSocket
       THEN readyState' = CloseCalled(readyState, ws) /\ ws' = NoSocket
       ELSE UNCHANGED <<readyState, ws>>
    /\ isConnected' = FALSE
    /\ sttLast' = Last("disconnect", ws, Null, FALSE,
                    <<Call("onConnectionStateChange", FALSE)>>, <<>>)
    /\ CallbacksFrom(ui, <<Call("onConnectionStateChange", FALSE)>>)
    /\ UNCHANGED <<reconnectAttempts, clientSecret, connectPc, wasOpened, wire, timers>>
disconnect == disconnectCall(UI) /\ UNCHANGED nonClient

\* ---- sendAudioData (stt.ts 71-100)
AppendFrame(audio) == [type |-> "input_audio_buffer.append", audio |-> audio]
CommitFrame        == [type |-> "input_audio_buffer.commit"]

\* if (!this.isConnected || !this.ws) return
ShouldDrop_socketOnly(conn, w) == w = NoSocket
ShouldDrop(conn, w) == ~conn \/ w = NoSocket

\* the two frames of one call, in the order the code sends them
AudioFrames_commitFirst(audioData) ==
    <<CommitFrame, AppendFrame(arrayBufferToBase64(encode(audioData)))>>
AudioFrames(audioData) ==
    <<AppendFrame(arrayBufferToBase64(encode(audioData))), CommitFrame>>

\* the try block calls send() frame by frame until one throws; fault is the
\* position of a send() the host makes throw, 0 for none
SendsTried(frames, s, fault) ==
    IF SendThrows(s) THEN SubSeq(frames, 1, 1)
    ELSE IF fault = 0 THEN frames
    ELSE SubSeq(frames, 1, fault)
\* the frames whose send() returned
SendsReturned(frames, s, fault) ==
    IF SendThrows(s) THEN <<>>
    ELSE IF fault = 0 THEN SendsTried(frames, s, fault)
    ELSE SubSeq(SendsTried(frames, s, fault), 1, fault - 1)
\* a send() of the try block threw
SendThrew(s, fault) == SendThrows(s) \/ fault # 0

\* catch (error) { console.error(...) }: whether the exception leaves the call
sendCatch_rethrows(thrown) == thrown
sendCatch(thrown) == FALSE

sendAudioDataCall(audioData, fault) ==
    /\ IF ShouldDrop(isConnected, ws)
       THEN /\ sttLast' = Last("sendAudioData", ws, audioData, FALSE, <<>>, <<>>)
            /\ UNCHANGED wire
       ELSE IF ~validateAudioData(audioData)
       THEN /\ sttLast' = Last("sendAudioData", ws, audioData, FALSE, <<>>, <<>>)
            /\ UNCHANGED wire
       ELSE /\ WireAppends < MaxAppends
            /\ wire' = Transmit(wire, ws, SendsReturned(AudioFrames(audioData), ws, fault))
            /\ sttLast' = [Last("sendAudioData", ws, audioData,
                                sendCatch(SendThrew(ws, fault)), <<>>,
                                SendsTried(AudioFrames(audioData), ws, fault))
                            EXCEPT !.caught = SendThrew(ws, fault)]
    /\ UNCHANGED <<sttFields, readyState, wasOpened, timers>>
sendAudioData(audioData, fault) ==
    sendAudioDataCall(audioData, fault) /\ UNCHANGED uiVars /\ UNCHANGED nonClient

\* ---- handleOpen (stt.ts 102-127) and its setTimeout callback
handleOpen(s) ==
    /\ readyState[s] = "CONNECTING"
    /\ readyState' = [readyState EXCEPT ![s] = "OPEN"]
    /\ wasOpened' = [wasOpened EXCEPT ![s] = TRUE]
    /\ isConnected' = TRUE
    /\ reconnectAttempts' = 0
    /\ timers' = Append(timers, s)
    /\ sttLast' = Last("open", s, Null, FALSE,
                    <<Call("onConnectionStateChange", TRUE)>>, <<>>)
    /\ Callbacks(<<Call("onConnectionStateChange", TRUE)>>)
    /\ UNCHANGED <<ws, clientSecret, connectPc, wire>>
    /\ UNCHANGED nonClient

SessionUpdate == [type |-> "session.update"]
sessionTimer ==
    /\ timers # <<>>
    /\ timers' = Tail(timers)
    /\ IF ws # NoSocket /\ readyState[ws] = "OPEN"
       THEN /\ wire' = Transmit(wire, ws, <<SessionUpdate>>)
            /\ sttLast' = Last("timer", Head(timers), Null, FALSE, <<>>, <<SessionUpdate>>)
       ELSE /\ UNCHANGED wire
            /\ sttLast' = Last("timer", Head(timers), Null, FALSE, <<>>, <<>>)
    /\ UNCHANGED <<sttFields, readyState, wasOpened, uiVars>>
    /\ UNCHANGED nonClient

\* ---- handleMessage (stt.ts 129-165)
\* event.data: text that does not parse, text that parses to null, or a JSON
\* object whose absent members are Null
Msg(type, transcript, delta, err) ==
    [parse |-> "object", type |-> type, transcript |-> transcript, delta |-> delta,
     error |-> err]
NoError == [present |-> FALSE, message |-> Null, code |-> Null]
Err(message, code) == [present |-> TRUE, message |-> message, code |-> code]
Completed == "conversation.item.input_audio_transcription.completed"
Payloads ==
    {[parse |-> "fail"], [parse |-> "null"]}
    \cup {Msg(Completed, t, Null, NoError) : t \in {"hello", "", Null}}
    \cup {Msg("response.text.delta", Null, d, NoError) : d \in {"wor", "", Null}}
    \cup {Msg("error", Null, Null, e) :
            e \in {Err("Invalid audio", "invalid_audio"), Err(Null, "rate_limit"),
                   Err(Null, Null), NoError}}
    \cup {Msg(t, Null, Null, NoError) :
            t \in {"session.created", "session.updated", "response.done", Null}}

Truthy(v) == v # Null /\ v # ""

\* message.error?.message || message.error?.code || JSON.stringify(message.error) || 'OpenAI error'
errorMsg_codeFirst(err) ==
    IF err.present /\ Truthy(err.code) THEN err.code
    ELSE IF err.present /\ Truthy(err.message) THEN err.message
    ELSE IF err.present THEN "{}"
    ELSE "OpenAI error"
errorMsg(err) ==
    IF err.present /\ Truthy(err.message) THEN err.message
    ELSE IF err.present /\ Truthy(err.code) THEN err.code
    ELSE IF err.present THEN "{}"
    ELSE "OpenAI error"

\* the callbacks handleMessage invokes for one inbound payload
messageCalls_sessionSignals(payload) ==
    IF payload.parse # "object" THEN <<>>
    ELSE IF payload.type = Completed THEN
        IF Truthy(payload.transcript)
        THEN <<Call("onFinalTranscript", payload.transcript)>> ELSE <<>>
    ELSE IF payload.type = "response.text.delta" THEN
        IF Truthy(payload.delta)
        THEN <<Call("onPartialTranscript", payload.delta)>> ELSE <<>>
    ELSE IF payload.type = "error" THEN <<Call("onError", errorMsg(payload.error))>>
    ELSE IF payload.type = "session.created"
    THEN <<Call("onConnectionStateChange", TRUE)>>
    ELSE <<>>
messageCalls(payload) ==
    IF payload.parse # "object" THEN <<>>
    ELSE IF payload.type = Completed THEN
        IF Truthy(payload.transcript)
        THEN <<Call("onFinalTranscript", payload.transcript)>> ELSE <<>>
    ELSE IF payload.type = "response.text.delta" THEN
        IF Truthy(payload.delta)
        THEN <<Call("onPartialTranscript", payload.delta)>> ELSE <<>>
    ELSE IF payload.type = "error" THEN <<Call("onError", errorMsg(payload.error))>>
    ELSE <<>>

handleMessage(s, payload) ==
    /\ readyState[s] = "OPEN"
    /\ \A i \in 1 .. Len(messageCalls(payload)) :
          messageCalls(payload)[i].cb = "onFinalTranscript"
              => Len(finalTranscript) < MaxTranscriptLen
    /\ sttLast' = Last("message", s, payload, FALSE, messageCalls(payload), <<>>)
    /\ Callbacks(messageCalls(payload))
    /\ UNCHANGED <<sttFields, sockVars>>
    /\ UNCHANGED nonClient

\* ---- handleClose (stt.ts 167-176)
NormalClosure == 1000
NoStatusRcvd  == 1005
AbnormalClose == 1006
CloseCodes    == {NormalClosure, NoStatusRcvd, AbnormalClose}
CloseReasons  == {"", "going away"}

CodeText(code) ==
    IF code = NormalClosure THEN "1000"
    ELSE IF code = NoStatusRcvd THEN "1005" ELSE "1006"

\* the callbacks handleClose invokes, in order
closeCalls_alwaysError(code, reason) ==
    <<Call("onConnectionStateChange", FALSE),
      Call("onError", "Connection closed: " \o reason \o " (Code: " \o CodeText(code) \o ")")>>
closeCalls(code, reason) ==
    <<Call("onConnectionStateChange", FALSE)>>
    \o (IF code # NormalClosure
        THEN LET closeReason == IF reason # "" THEN reason
                                ELSE "WebSocket closed with code " \o CodeText(code)
             IN  <<Call("onError", "Connection closed: " \o closeReason
                                   \o " (Code: " \o CodeText(code) \o ")")>>
        ELSE <<>>)

\* a socket that never opened closes with 1006 and no reason
CloseEvents(s) ==
    IF wasOpened[s]
    THEN {[code |-> c, reason |-> r] : c \in CloseCodes, r \in CloseReasons}
    ELSE {[code |-> AbnormalClose, reason |-> ""]}

handleClose_reconnects(s, ev) ==
    /\ readyState[s] # "CLOSED"
    /\ readyState' = [readyState EXCEPT ![s] = "CLOSED"]
    /\ isConnected' = FALSE
    /\ connectPc' = IF ev.code # NormalClosure THEN "fetching" ELSE connectPc
    /\ reconnectAttempts' = IF ev.code # NormalClosure THEN 1 ELSE reconnectAttempts
    /\ sttLast' = Last("close", s, ev, FALSE, closeCalls(ev.code, ev.reason), <<>>)
    /\ Callbacks(closeCalls(ev.code, ev.reason))
    /\ UNCHANGED <<ws, clientSecret, wasOpened, wire, timers>>
    /\ UNCHANGED nonClient
handleClose(s, ev) ==
    /\ readyState[s] # "CLOSED"
    /\ readyState' = [readyState EXCEPT ![s] = "CLOSED"]
    /\ isConnected' = FALSE
    /\ sttLast' = Last("close", s, ev, FALSE, closeCalls(ev.code, ev.reason), <<>>)
    /\ Callbacks(closeCalls(ev.code, ev.reason))
    /\ UNCHANGED <<ws, reconnectAttempts, clientSecret, connectPc, wasOpened, wire, timers>>
    /\ UNCHANGED nonClient

\* ---- handleError (stt.ts 178-181)
handleError(s) ==
    /\ readyState[s] # "CLOSED"
    /\ sttLast' = Last("error", s, Null, FALSE,
                       <<Call("onError", "WebSocket connection error")>>, <<>>)
    /\ Callbacks(<<Call("onError", "WebSocket connection error")>>)
    /\ UNCHANGED <<sttFields, sockVars>>
    /\ UNCHANGED nonClient

\* ---- the buffers the sink hands to sendAudioData, and send() faults
AudioInputs == {F32(<<Num(-SampleDen), Num(SampleDen)>>), NotFloat32Array}
SendFaults  == 0 .. 2

(***************************************************************************)
(* AudioManager (lib/audio).  initialize() and cleanup() are async: a call *)
(* in flight is a record of where it waits and on which context's promise. *)
(***************************************************************************)
MaxContexts == 2    \* AudioContexts (and MediaStreams) one instance creates
MaxNodes    == 2    \* AudioWorkletNodes one instance creates
MaxInits    == 1    \* initialize() calls in flight at once
MaxCleanups == 2    \* cleanup() calls in flight at once

NoObject == 0

AudLast(op, threw) ==
    [op |-> op, threw |-> threw, prev |-> audLast.op,
     overlapped |-> Len(cleanups) > 0, name |-> Null]

RemoveAt(seq, k) == SubSeq(seq, 1, k - 1) \o SubSeq(seq, k + 1, Len(seq))

\* ---- initialize() (part_001 16-45)
initializeCall ==
    /\ Len(initPc) < MaxInits
    /\ IF isInitialized
       THEN UNCHANGED initPc
       ELSE /\ Len(ctxState) + Len(initPc) < MaxContexts
            /\ initPc' = Append(initPc, [pc |-> "getUserMedia", ctx |-> NoObject])
    /\ audLast' = AudLast("initialize", FALSE)
    /\ UNCHANGED <<audFields, audObjs, cleanups>>
initialize == initializeCall /\ UNCHANGED nonAudio

GumResults == {"ok", "NotAllowedError", "NotFoundError", "NotReadableError"}

\* getUserMedia settles: on success the stream and a new AudioContext are
\* stored; a suspended context is resumed, else the worklet module is loaded
initializeGum(k, result, st) ==
    /\ initPc[k].pc = "getUserMedia"
    /\ IF result = "ok"
       THEN /\ trackLive' = Append(trackLive, TRUE)
            /\ mediaStream' = Len(trackLive) + 1
            /\ ctxState' = Append(ctxState, st)
            /\ ctxCtlClosed' = Append(ctxCtlClosed, FALSE)
            /\ audioContext' = Len(ctxState) + 1
            /\ initPc' = [initPc EXCEPT ![k] =
                            [pc |-> IF st = "suspended" THEN "resume" ELSE "addModule",
                             ctx |-> Len(ctxState) + 1]]
            /\ audLast' = AudLast("initialize.getUserMedia", FALSE)
       ELSE /\ initPc' = RemoveAt(initPc, k)
            /\ audLast' = [AudLast("initialize.getUserMedia", TRUE) EXCEPT !.name = result]
            /\ UNCHANGED <<mediaStream, audioContext, ctxState, ctxCtlClosed, trackLive>>
    /\ UNCHANGED <<workletNode, isInitialized, nodeConnected, cleanups>>
    /\ UNCHANGED nonAudio

\* resume() settles: rejected on a closed context; afterwards addModule is
\* called on whatever this.audioContext holds now (a TypeError when null)
initializeResume(k) ==
    /\ initPc[k].pc = "resume"
    /\ IF ctxCtlClosed[initPc[k].ctx]
       THEN /\ initPc' = RemoveAt(initPc, k)
            /\ audLast' = AudLast("initialize.resume", TRUE)
            /\ UNCHANGED ctxState
       ELSE IF audioContext = NoObject
       THEN /\ ctxState' = [ctxState EXCEPT ![initPc[k].ctx] = "running"]
            /\ initPc' = RemoveAt(initPc, k)
            /\ audLast' = AudLast("initialize.resume", TRUE)
       ELSE /\ ctxState' = [ctxState EXCEPT ![initPc[k].ctx] = "running"]
            /\ initPc' = [initPc EXCEPT ![k] = [pc |-> "addModule", ctx |-> audioContext]]
            /\ audLast' = AudLast("initialize.resume", FALSE)
    /\ UNCHANGED <<audFields, ctxCtlClosed, trackLive, nodeConnected, cleanups>>
    /\ UNCHANGED nonAudio

\* addModule settles
initializeModule(k, ok) ==
    /\ initPc[k].pc = "addModule"
    /\ initPc' = RemoveAt(initPc, k)
    /\ isInitialized' = (IF ok THEN TRUE ELSE isInitialized)
    /\ audLast' = AudLast("initialize.addModule", ~ok)
    /\ UNCHANGED <<audioContext, mediaStream, workletNode, audObjs, cleanups>>
    /\ UNCHANGED nonAudio

\* ---- startStreaming (part_001 47-74)
startStreamingCall ==
    /\ IF ~isInitialized \/ audioContext = NoObject \/ mediaStream = NoObject
       THEN /\ audLast' = AudLast("startStreaming", TRUE)
            /\ UNCHANGED <<workletNode, nodeConnected>>
       ELSE /\ Len(nodeConnected) < MaxNodes
            /\ nodeConnected' = Append(nodeConnected, TRUE)
            /\ workletNode' = Len(nodeConnected) + 1
            /\ audLast' = AudLast("startStreaming", FALSE)
    /\ UNCHANGED <<audioContext, mediaStream, isInitialized, ctxState, ctxCtlClosed,
                   trackLive, initPc, cleanups>>
startStreaming == startStreamingCall /\ UNCHANGED nonAudio

\* ---- stopStreaming (part_001 76-81), as the fields it leaves
StopNode(nc, node) == IF node # NoObject THEN [nc EXCEPT ![node] = FALSE] ELSE nc
stopStreaming ==
    /\ nodeConnected' = StopNode(nodeConnected, workletNode)
    /\ workletNode' = NoObject
    /\ audLast' = AudLast("stopStreaming", FALSE)
    /\ UNCHANGED <<audioContext, mediaStream, isInitialized, ctxState, ctxCtlClosed,
                   trackLive, initPc, cleanups>>
    /\ UNCHANGED nonAudio

\* ---- cleanup (part_001 83-97)
StopTracks(tl, stream) == IF stream # NoObject THEN [tl EXCEPT ![stream] = FALSE] ELSE tl

\* the call up to its await: stopStreaming, the tracks, then close() unless the
\* state attribute already reads closed.  close() rejects when the context's
\* control-thread state is closed; otherwise it closes that state at once and
\* the state attribute either at once (sync) or when the promise settles.
cleanupCall(sync) ==
    /\ Len(cleanups) < MaxCleanups
    /\ nodeConnected' = StopNode(nodeConnected, workletNode)
    /\ workletNode' = NoObject
    /\ trackLive' = StopTracks(trackLive, mediaStream)
    /\ mediaStream' = NoObject
    /\ IF audioContext # NoObject /\ ctxState[audioContext] # "closed"
       THEN IF ctxCtlClosed[audioContext]
            THEN /\ audLast' = AudLast("cleanup", TRUE)
                 /\ UNCHANGED <<isInitialized, ctxState, ctxCtlClosed, cleanups>>
            ELSE /\ ctxCtlClosed' = [ctxCtlClosed EXCEPT ![audioContext] = TRUE]
                 /\ ctxState' = IF sync THEN [ctxState EXCEPT ![audioContext] = "closed"]
                                ELSE ctxState
                 /\ cleanups' = Append(cleanups, [ctx |-> audioContext])
                 /\ audLast' = AudLast("cleanup", FALSE)
                 /\ UNCHANGED isInitialized
       ELSE /\ isInitialized' = FALSE
            /\ audLast' = AudLast("cleanup", FALSE)
            /\ UNCHANGED <<ctxState, ctxCtlClosed, cleanups>>
    /\ UNCHANGED <<audioContext, initPc>>
cleanup(sync) == cleanupCall(sync) /\ UNCHANGED nonAudio

\* the close() promise of call k settles: the rest of cleanup runs
cleanupSettle(k) ==
    /\ k \in 1 .. Len(cleanups)
    /\ ctxState' = [ctxState EXCEPT ![cleanups[k].ctx] = "closed"]
    /\ audioContext' = NoObject
    /\ isInitialized' = FALSE
    /\ cleanups' = RemoveAt(cleanups, k)
    /\ audLast' = AudLast("cleanup.settle", FALSE)
    /\ UNCHANGED <<mediaStream, workletNode, ctxCtlClosed, trackLive, nodeConnected, initPc>>
    /\ UNCHANGED nonAudio

(***************************************************************************)
(* The worklet processor and its port (public/audio-processor.js, lib/audio *)
(* 59-64), and the page's recording sequence (src/app/page.tsx 61-149).    *)
(***************************************************************************)
MaxStarts == 2      \* handleStartRecording calls
MaxQuanta == 3      \* non-empty quanta the processors copy (at most SampleDen, so
                    \* that the quanta differ in content after clamping)

\* the k-th non-empty quantum the processing thread is handed
QuantumOf(k) == F32(<<Num(k)>>)
NoQuantum    == F32(<<>>)

PageLast(op, node, data, posted, acted) ==
    [op |-> op, node |-> node, data |-> data, posted |-> posted, acted |-> acted,
     live |-> IF node = NoObject THEN FALSE ELSE nodeConnected[node],
     ref |-> sttClientRef]

\* ---- AudioProcessor.process (audio-processor.js 10-37) of node n: inputs[0] is
\* absent or has no channel ("none"), its first channel is empty ("empty"), or
\* it holds a quantum, which is copied and posted at once
ProcessInputs == {"none", "empty", "quantum"}
AudioDataMessage(audioData, n) == [type |-> "audioData", audioData |-> audioData, node |-> n]
process(n, input) ==
    /\ nodeConnected[n]
    /\ IF input = "quantum"
       THEN /\ produced < MaxQuanta
            /\ produced' = produced + 1
            /\ port' = Append(port, AudioDataMessage(QuantumOf(produced + 1), n))
            /\ pageLast' = PageLast("process", n, QuantumOf(produced + 1), TRUE, FALSE)
       ELSE /\ UNCHANGED <<produced, port>>
            /\ pageLast' = PageLast("process", n, NoQuantum, FALSE, FALSE)
    /\ UNCHANGED <<sinkLog, pageVars, encVars, sttVars, audVars>>

\* ---- workletNode.port.onmessage (part_001 60-64) for the oldest message of one
\* port, calling the sink the page passed to startStreaming (page.tsx 96-100)
OldestOfPort_anyMessage(i) == TRUE
OldestOfPort(i) == \A j \in 1 .. (i - 1) : port[j].node # port[i].node
onmessage(i, fault) ==
    /\ OldestOfPort(i)
    /\ port' = RemoveAt(port, i)
    /\ IF port[i].type = "audioData"
       THEN /\ sinkLog' = Append(sinkLog, [node |-> port[i].node,
                                           audioData |-> port[i].audioData])
            /\ IF sttClientRef # 0
               THEN /\ sendAudioDataCall(port[i].audioData, fault)
                    /\ pageLast' = PageLast("sink", port[i].node, port[i].audioData, FALSE, TRUE)
               ELSE /\ fault = 0
                    /\ pageLast' = PageLast("sink", port[i].node, port[i].audioData, FALSE, FALSE)
                    /\ UNCHANGED <<sttFields, sockVars, sttLast>>
       ELSE /\ fault = 0
            /\ pageLast' = PageLast("message", port[i].node, port[i].audioData, FALSE, FALSE)
            /\ UNCHANGED <<sinkLog, sttFields, sockVars, sttLast>>
    /\ UNCHANGED <<uiVars, callbacks, produced, pageVars, encVars, audVars>>

\* ---- handleStartRecording (page.tsx 61-133), one step per stretch of code
\* between awaits.  The button calls it when isRecording is false and is
\* disabled while connectionStatus is 'connecting' (page.tsx 165-166).
CapabilityMissing ==
    "Microphone access not supported in this browser. Please use Chrome, Edge, or Brave."
Capabilities == {"ok", CapabilityMissing}

\* lines 104-118: the message of the caught error
ErrorMessage(name) ==
    IF name = "NotAllowedError"
    THEN "Microphone permission denied. Please allow microphone access and try again."
    ELSE IF name = "NotFoundError"
    THEN "No microphone found. Please connect a microphone and try again."
    ELSE IF name = "NotReadableError"
    THEN "Microphone is already in use by another application."
    ELSE "Unable to load a worklet's module."

\* lines 62-83: the capability checks, then initialize() up to its first await
handleStartRecording(capability) ==
    /\ pagePc = "idle"
    /\ ~isRecording
    /\ connectionStatus # "connecting"
    /\ starts < MaxStarts
    /\ starts' = starts + 1
    /\ error' = Null
    /\ connectionStatus' = "connecting"
    /\ IF capability # "ok"
       THEN /\ pagePc' = "catch"
            /\ pageErr' = capability
            /\ UNCHANGED audVars
       ELSE /\ pagePc' = "awaitInit"
            /\ initializeCall
            /\ pageErr' = Null
    /\ pageLast' = PageLast("handleStartRecording", NoObject, NoQuantum, FALSE, FALSE)
    /\ UNCHANGED <<finalTranscript, partialTranscript, isRecording, sttClientRef,
                   staleSockets, port, produced, sinkLog>>
    /\ UNCHANGED <<callbacks, sttFields, sockVars, sttLast, encVars>>

\* lines 83-91: initialize() settled; on success a new client is constructed with
\* the page's handlers: the sockets of earlier clients stay with those clients
startAfterInitialize ==
    /\ pagePc = "awaitInit"
    /\ initPc = <<>>
    /\ IF audLast.threw
       THEN /\ pagePc' = "catch"
            /\ pageErr' = ErrorMessage(audLast.name)
            /\ UNCHANGED <<sttClientRef, staleSockets, sttFields, timers>>
       ELSE /\ pagePc' = "connect"
            /\ sttClientRef' = starts
            /\ staleSockets' = Len(readyState)
            /\ ws' = NoSocket
            /\ isConnected' = FALSE
            /\ reconnectAttempts' = 0
            /\ clientSecret' = Null
            /\ connectPc' = "idle"
            /\ timers' = <<>>
            /\ UNCHANGED pageErr
    /\ pageLast' = PageLast("startAfterInitialize", NoObject, NoQuantum, FALSE, FALSE)
    /\ UNCHANGED <<starts, port, produced, sinkLog>>
    /\ UNCHANGED <<callbacks, readyState, wasOpened, wire, sttLast, uiVars, encVars, audVars>>

\* line 93: connect() up to its await
startConnect ==
    /\ pagePc = "connect"
    /\ connectCall(MaxStarts)
    /\ pagePc' = "awaitConnect"
    /\ pageLast' = PageLast("startConnect", NoObject, NoQuantum, FALSE, FALSE)
    /\ UNCHANGED <<pageErr, sttClientRef, staleSockets, starts, port, produced, sinkLog>>
    /\ UNCHANGED <<callbacks, uiVars, encVars, audVars>>

\* lines 93-102: connect() settled; on success startStreaming(sink), then
\* setIsRecording(true)
startAfterConnect ==
    /\ pagePc = "awaitConnect"
    /\ connectPc = "idle"
    /\ IF sttLast.threw
       THEN /\ pagePc' = "catch"
            /\ pageErr' = sttLast.calls[1].arg
            /\ UNCHANGED <<audVars, isRecording>>
       ELSE /\ startStreamingCall
            /\ IF audLast'.threw
               THEN /\ pagePc' = "catch"
                    /\ pageErr' = "AudioManager not initialized"
                    /\ UNCHANGED isRecording
               ELSE /\ pagePc' = "idle"
                    /\ isRecording' = TRUE
                    /\ UNCHANGED pageErr
    /\ pageLast' = PageLast("startAfterConnect", NoObject, NoQuantum, FALSE, FALSE)
    /\ UNCHANGED <<finalTranscript, partialTranscript, error, connectionStatus>>
    /\ UNCHANGED <<sttClientRef, staleSockets, starts, port, produced, sinkLog>>
    /\ UNCHANGED <<callbacks, sttFields, sockVars, sttLast, encVars>>

\* lines 104-131: the catch block
startCatch(sync) ==
    /\ pagePc = "catch"
    /\ pagePc' = "idle"
    /\ LET u == [UI EXCEPT !.error = pageErr, !.connectionStatus = "disconnected",
                           !.isRecording = FALSE]
       IN  IF sttClientRef # 0
           THEN disconnectCall(u)
           ELSE /\ CallbacksFrom(u, <<>>)
                /\ UNCHANGED <<sttFields, sockVars, sttLast>>
    /\ sttClientRef' = 0
    /\ cleanupCall(sync)
    /\ pageLast' = PageLast("startCatch", NoObject, NoQuantum, FALSE, FALSE)
    /\ UNCHANGED <<pageErr, staleSockets, starts, port, produced, sinkLog>>
    /\ UNCHANGED <<callbacks, encVars>>

\* ---- handleStopRecording (page.tsx 135-149); the button calls it when
\* isRecording is true.  stopStreaming() is the first thing cleanup() does too.
handleStopRecording(sync) ==
    /\ pagePc = "idle"
    /\ isRecording
    /\ connectionStatus # "connecting"
    /\ LET u == [UI EXCEPT !.isRecording = FALSE, !.partial = "",
                           !.connectionStatus = "disconnected"]
       IN  IF sttClientRef # 0
           THEN disconnectCall(u)
           ELSE /\ CallbacksFrom(u, <<>>)
                /\ UNCHANGED <<sttFields, sockVars, sttLast>>
    /\ sttClientRef' = 0
    /\ cleanupCall(sync)
    /\ pageLast' = PageLast("handleStopRecording", workletNode, NoQuantum, FALSE, FALSE)
    /\ UNCHANGED <<pagePc, pageErr, staleSockets, starts, port, produced, sinkLog>>
    /\ UNCHANGED <<callbacks, encVars>>

\* a continuation of handleStartRecording is due: it runs before any other task
PageBusy ==
    \/ pagePc \in {"connect", "catch"}
    \/ pagePc = "awaitInit" /\ initPc = <<>>
    \/ pagePc = "awaitConnect" /\ connectPc = "idle"

\* the sockets of the client the page holds or built last, and those of the
\* clients it built before
CurrentSockets == {s \in Sockets : s > staleSockets}
DroppedSockets == {s \in Sockets : s <= staleSockets}

\* the close event of a dropped client's socket: handleClose runs on that
\* client, whose callbacks are the page's handlers too
droppedClose(s, ev) ==
    /\ readyState[s] # "CLOSED"
    /\ readyState' = [readyState EXCEPT ![s] = "CLOSED"]
    /\ sttLast' = Last("close", s, ev, FALSE, closeCalls(ev.code, ev.reason), <<>>)
    /\ Callbacks(closeCalls(ev.code, ev.reason))
    /\ UNCHANGED <<sttFields, wasOpened, wire, timers>>
    /\ UNCHANGED nonClient

(***************************************************************************)
(* Initial states and next-state relations.                                *)
(***************************************************************************)
EncIdle ==
    /\ encOut = [done |-> FALSE, pcm |-> <<>>]
    /\ encValid = [done |-> FALSE, ok |-> FALSE, warned |-> FALSE]

\* a client as constructed (stt.ts 11-20) on the page as mounted (page.tsx 8-12)
STTInit(cb) ==
    /\ callbacks = cb
    /\ ws = NoSocket
    /\ isConnected = FALSE
    /\ reconnectAttempts = 0
    /\ clientSecret = Null
    /\ connectPc = "idle"
    /\ readyState = <<>>
    /\ wasOpened = <<>>
    /\ wire = <<>>
    /\ timers = <<>>
    /\ sttLast = [op |-> "new", sock |-> NoSocket, input |-> Null, conn |-> FALSE,
                  held |-> NoSocket, threw |-> FALSE, calls |-> <<>>, sends |-> <<>>,
                  caught |-> FALSE]
    /\ finalTranscript = ""
    /\ partialTranscript = ""
    /\ error = Null
    /\ isRecording = FALSE
    /\ connectionStatus = "disconnected"

\* an AudioManager as constructed (part_001 3-6)
AudInit ==
    /\ audioContext = NoObject
    /\ mediaStream = NoObject
    /\ workletNode = NoObject
    /\ isInitialized = FALSE
    /\ ctxState = <<>>
    /\ ctxCtlClosed = <<>>
    /\ trackLive = <<>>
    /\ nodeConnected = <<>>
    /\ initPc = <<>>
    /\ cleanups = <<>>
    /\ audLast = [op |-> "new", threw |-> FALSE, prev |-> "new", overlapped |-> FALSE,
                  name |-> Null]

\* the page as mounted (page.tsx 8-19), no worklet node created yet
PageIdle ==
    /\ pagePc = "idle"
    /\ pageErr = Null
    /\ sttClientRef = 0
    /\ staleSockets = 0
    /\ starts = 0
    /\ port = <<>>
    /\ produced = 0
    /\ sinkLog = <<>>
    /\ pageLast = [op |-> "mount", node |-> NoObject, data |-> NoQuantum, posted |-> FALSE,
                   acted |-> FALSE, live |-> FALSE, ref |-> 0]

\* ---- PCM16Encoder applied to every bounded buffer
encodeCall ==
    /\ ~encOut.done
    /\ encOut' = [done |-> TRUE, pcm |-> encode(encIn)]
    /\ UNCHANGED <<encIn, encValid, sttVars, audVars, pageVars, pipeVars>>

validateCall ==
    /\ ~encValid.done
    /\ encValid' = [done |-> TRUE, ok |-> validateAudioData(encIn),
                    warned |-> ~hasValidSamples(encIn)]
    /\ UNCHANGED <<encIn, encOut, sttVars, audVars, pageVars, pipeVars>>

InitEnc == encIn \in {F32(b) : b \in Buffers} /\ EncIdle /\ STTInit("recorder") /\ AudInit /\ PageIdle
NextEnc == encodeCall \/ validateCall
SpecEnc == InitEnc /\ [][NextEnc]_vars

\* ---- one OpenAIRealtimeSTT instance with a recording sink, and its sockets:
\* every token response, send fault and close event; one inbound payload of
\* each outcome (a delivery, an error, a no-op)
LifecyclePayloads ==
    {Msg(Completed, "hello", Null, NoError), Msg("error", Null, Null, NoError),
     [parse |-> "fail"]}
InitSTT == encIn = F32(<<>>) /\ EncIdle /\ STTInit("recorder") /\ AudInit /\ PageIdle
NextSTT ==
    \/ connectStart
    \/ \E resp \in TokenResponses : connectSettle(resp)
    \/ disconnect
    \/ \E a \in AudioInputs, f \in SendFaults : sendAudioData(a, f)
    \/ \E s \in Sockets : handleOpen(s)
    \/ sessionTimer
    \/ \E s \in Sockets, p \in LifecyclePayloads : handleMessage(s, p)
    \/ \E s \in Sockets : \E ev \in CloseEvents(s) : handleClose(s, ev)
    \/ \E s \in Sockets : handleError(s)
SpecSTT == InitSTT /\ [][NextSTT]_vars

\* ---- the client constructed by the page (page.tsx 86-91) with the page's four
\* handlers: every inbound payload, one token response of each outcome
PageResponses ==
    {[kind |-> "http", ok |-> TRUE, json |-> TRUE, client_secret |-> "ek_123"],
     [kind |-> "http", ok |-> FALSE, error |-> KeyNotConfigured]}
InitPage == encIn = F32(<<>>) /\ EncIdle /\ STTInit("page") /\ AudInit /\ PageIdle
NextPage ==
    \/ connectStart
    \/ \E resp \in PageResponses : connectSettle(resp)
    \/ disconnect
    \/ \E s \in Sockets : handleOpen(s)
    \/ sessionTimer
    \/ \E s \in Sockets, p \in Payloads : handleMessage(s, p)
    \/ \E s \in Sockets : \E ev \in CloseEvents(s) : ev.reason = "" /\ handleClose(s, ev)
    \/ \E s \in Sockets : handleError(s)
SpecPage == InitPage /\ [][NextPage]_vars

\* ---- one AudioManager instance and the platform objects it creates
InitAudio == encIn = F32(<<>>) /\ EncIdle /\ STTInit("recorder") /\ AudInit /\ PageIdle
NextAudio ==
    \/ initialize
    \/ \E k \in 1 .. Len(initPc), r \in GumResults, st \in {"suspended", "running"} :
          initializeGum(k, r, st)
    \/ \E k \in 1 .. Len(initPc) : initializeResume(k)
    \/ \E k \in 1 .. Len(initPc), ok \in BOOLEAN : initializeModule(k, ok)
    \/ startStreaming
    \/ stopStreaming
    \/ \E sync \in BOOLEAN : cleanup(sync)
    \/ \E k \in 1 .. Len(cleanups) : cleanupSettle(k)
SpecAudio == InitAudio /\ [][NextAudio]_vars

\* ---- one OpenAIRealtimeSTT instance on which connect() is called again, with
\* or without a disconnect() in between: the sockets of earlier calls keep the
\* handlers connect() bound to them
InitSession == encIn = F32(<<>>) /\ EncIdle /\ STTInit("recorder") /\ AudInit /\ PageIdle
NextSession ==
    \/ connectStartUpTo(MaxSessions)
    \/ \E resp \in PageResponses : connectSettle(resp)
    \/ disconnect
    \/ \E s \in Sockets : handleOpen(s)
    \/ sessionTimer
    \/ \E s \in Sockets : \E ev \in CloseEvents(s) : ev.reason = "" /\ handleClose(s, ev)
    \/ \E s \in Sockets : handleError(s)
SpecSession == InitSession /\ [][NextSession]_vars

\* ---- the page recording: start, stop and start again, with the engine, the
\* client and the worklet port between them; one outcome of each kind for the
\* microphone, the worklet module and the token
RecordGum       == {"ok", "NotAllowedError"}
RecordCloses(s) == {ev \in CloseEvents(s) : ev.reason = "" /\ ev.code # NoStatusRcvd}
InitRecord == encIn = F32(<<>>) /\ EncIdle /\ STTInit("page") /\ AudInit /\ PageIdle
NextRecord ==
    \/ \E c \in Capabilities : handleStartRecording(c)
    \/ startAfterInitialize
    \/ startConnect
    \/ startAfterConnect
    \/ \E sync \in BOOLEAN : startCatch(sync)
    \/ \E sync \in BOOLEAN : handleStopRecording(sync)
    \/ \E k \in 1 .. Len(initPc), r \in RecordGum : ~PageBusy /\ initializeGum(k, r, "running")
    \/ \E k \in 1 .. Len(initPc), ok \in BOOLEAN : ~PageBusy /\ initializeModule(k, ok)
    \/ \E k \in 1 .. Len(cleanups) : ~PageBusy /\ cleanupSettle(k)
    \/ \E resp \in PageResponses : ~PageBusy /\ connectSettle(resp)
    \/ \E s \in CurrentSockets : ~PageBusy /\ handleOpen(s)
    \/ \E s \in CurrentSockets : \E ev \in RecordCloses(s) : ~PageBusy /\ handleClose(s, ev)
    \/ \E s \in CurrentSockets : ~PageBusy /\ readyState[s] = "OPEN" /\ handleError(s)
    \/ \E s \in DroppedSockets : \E ev \in RecordCloses(s) : ~PageBusy /\ droppedClose(s, ev)
    \/ \E n \in 1 .. Len(nodeConnected) : ~PageBusy /\ process(n, "quantum")
    \/ \E i \in 1 .. Len(port) : ~PageBusy /\ onmessage(i, 0)
SpecRecord == InitRecord /\ [][NextRecord]_vars

\* ---- one recording that starts and streams: every process() input and send
\* fault, the socket opening and closing normally
StreamResponse  == [kind |-> "http", ok |-> TRUE, json |-> TRUE, client_secret |-> "ek_123"]
StreamClose     == [code |-> NormalClosure, reason |-> ""]
InitStream == encIn = F32(<<>>) /\ EncIdle /\ STTInit("page") /\ AudInit /\ PageIdle
NextStream ==
    \/ handleStartRecording("ok")
    \/ startAfterInitialize
    \/ startConnect
    \/ startAfterConnect
    \/ \E k \in 1 .. Len(initPc) : ~PageBusy /\ initializeGum(k, "ok", "running")
    \/ \E k \in 1 .. Len(initPc) : ~PageBusy /\ initializeModule(k, TRUE)
    \/ ~PageBusy /\ connectSettle(StreamResponse)
    \/ \E s \in CurrentSockets : ~PageBusy /\ handleOpen(s)
    \/ ~PageBusy /\ sessionTimer
    \/ \E s \in CurrentSockets : ~PageBusy /\ wasOpened[s] /\ handleClose(s, StreamClose)
    \/ \E n \in 1 .. Len(nodeConnected), in \in ProcessInputs : ~PageBusy /\ process(n, in)
    \/ \E i \in 1 .. Len(port), f \in SendFaults : ~PageBusy /\ onmessage(i, f)
SpecStream == InitStream /\ [][NextStream]_vars

\* ---- a client of the page streaming on its socket while the service sends
\* error events of every shape and the socket fires error events
ErrorPayloads == {p \in Payloads : p.parse = "object" /\ p.type = "error"}
ErrorAudio    == F32(<<Num(-SampleDen), Num(SampleDen)>>)
InitErrors == encIn = F32(<<>>) /\ EncIdle /\ STTInit("page") /\ AudInit /\ PageIdle
NextErrors ==
    \/ connectStart
    \/ connectSettle(StreamResponse)
    \/ \E s \in Sockets : handleOpen(s)
    \/ sessionTimer
    \/ \E s \in Sockets, p \in ErrorPayloads : handleMessage(s, p)
    \/ \E s \in Sockets : handleError(s)
    \/ \E f \in SendFaults : sendAudioData(ErrorAudio, f)
SpecErrors == InitErrors /\ [][NextErrors]_vars

(***************************************************************************)
(* Properties.                                                             *)
(***************************************************************************)
NumCalls(calls, cb) == Cardinality({i \in 1 .. Len(calls) : calls[i].cb = cb})
IsAppend(f) == f.type = "input_audio_buffer.append"
IsCommit(f) == f.type = "input_audio_buffer.commit"

\* C1: a sendAudioData call made while isConnected is false calls send() on no
\* socket, transmits nothing, and leaves the client, its sockets and its
\* pending timers as they were: nothing is kept for later sending.
C1_DropWhenDisconnected ==
    [][(sttLast'.op = "sendAudioData" /\ ~isConnected)
         => /\ sttLast'.sends = <<>>
            /\ wire' = wire
            /\ UNCHANGED <<sttFields, sockVars>>]_vars

\* the call came after the socket's close event, with the socket still held
C1_Witness ==
    /\ sttLast.op = "sendAudioData"
    /\ ~sttLast.conn
    /\ sttLast.input.f32
    /\ sttLast.held # NoSocket
    /\ readyState[sttLast.held] = "CLOSED"
    /\ wasOpened[sttLast.held]

\* C2: a sendAudioData call accepted while connected calls send() first with
\* the append frame and then, only if that send returned, with the commit
\* frame, and with nothing else; what reaches the wire in the step is a prefix
\* of those two frames on the held socket only; on every wire a commit frame
\* directly follows an append frame.
C2_AppendThenCommit ==
    [][/\ (sttLast'.op = "sendAudioData" /\ isConnected /\ ws # NoSocket
           /\ sttLast'.input.f32)
         => /\ Len(sttLast'.sends) \in {1, 2}
            /\ IsAppend(sttLast'.sends[1])
            /\ Len(sttLast'.sends) = 2 => IsCommit(sttLast'.sends[2])
            /\ \E n \in 0 .. Len(sttLast'.sends) :
                  wire' = [wire EXCEPT ![ws] = wire[ws] \o SubSeq(sttLast'.sends, 1, n)]
       /\ \A s \in 1 .. Len(wire') : \A i \in 1 .. Len(wire'[s]) :
             IsCommit(wire'[s][i]) => (i > 1 /\ IsAppend(wire'[s][i - 1]))]_vars

\* both frames of one accepted call were transmitted, append then commit
C2_Witness ==
    /\ sttLast.op = "sendAudioData"
    /\ sttLast.conn
    /\ Len(sttLast.sends) = 2
    /\ Len(wire[sttLast.sock]) >= 2
    /\ IsAppend(wire[sttLast.sock][Len(wire[sttLast.sock]) - 1])
    /\ IsCommit(wire[sttLast.sock][Len(wire[sttLast.sock])])

\* C3: a close event invokes onConnectionStateChange(false) exactly once and
\* no transcript callback; with code 1000 it invokes onError not at all, with
\* any other code exactly once and with a text containing the code; the
\* client is not connected afterwards.
C3_AbnormalCloseSignaling ==
    sttLast.op = "close" =>
        /\ ~isConnected
        /\ NumCalls(sttLast.calls, "onConnectionStateChange") = 1
        /\ \A i \in 1 .. Len(sttLast.calls) :
              /\ sttLast.calls[i].cb \in {"onConnectionStateChange", "onError"}
              /\ sttLast.calls[i].cb = "onConnectionStateChange"
                    => sttLast.calls[i].arg = FALSE
              /\ sttLast.calls[i].cb = "onError"
                    => Includes(sttLast.calls[i].arg, CodeText(sttLast.input.code))
        /\ NumCalls(sttLast.calls, "onError")
              = (IF sttLast.input.code = NormalClosure THEN 0 ELSE 1)

\* a connected client's socket closed with code 1006
C3_Witness ==
    /\ sttLast.op = "close"
    /\ sttLast.conn
    /\ sttLast.input.code = AbnormalClose
    /\ NumCalls(sttLast.calls, "onError") = 1

\* C4: after disconnect() the close event of the socket it discarded (a socket
\* the client no longer holds) invokes onError not at all, so the page's error
\* stays as it was.
C4_ExplicitStopNoError ==
    (sttLast.op = "close" /\ sttLast.held # sttLast.sock)
        => NumCalls(sttLast.calls, "onError") = 0

\* C5: a non-OK token response whose error reports the missing server
\* credential makes connect() throw and deliver the credential guidance message.
MissingCredentialBodies == {KeyNotConfigured, ScenarioMissing}
C5_CredentialGuidance ==
    (/\ sttLast.op = "connect.settle"
     /\ sttLast.input.kind = "http"
     /\ ~sttLast.input.ok
     /\ sttLast.input.error \in MissingCredentialBodies)
        => /\ sttLast.threw
           /\ sttLast.calls = <<Call("onError", GuidanceMessage)>>

\* C6: a failed token exchange (fetch rejected, non-OK response, unreadable
\* body, no client_secret) makes connect() throw after exactly one onError,
\* with no socket created and this.ws and isConnected unchanged; a successful
\* one returns with a new CONNECTING socket held and isConnected unchanged;
\* isConnected turns true only in a socket's open event.
TokenFailed(resp) ==
    \/ resp.kind = "reject"
    \/ resp.kind = "http" /\ (~resp.ok \/ ~resp.json \/ resp.client_secret = Null)
C6_TokenFailureNoSocket ==
    [][/\ (sttLast'.op = "connect.settle" /\ TokenFailed(sttLast'.input))
         => /\ sttLast'.threw
            /\ Len(sttLast'.calls) = 1
            /\ sttLast'.calls[1].cb = "onError"
            /\ UNCHANGED <<ws, isConnected, readyState, wire>>
       /\ (sttLast'.op = "connect.settle" /\ ~TokenFailed(sttLast'.input))
         => /\ ~sttLast'.threw
            /\ sttLast'.calls = <<>>
            /\ Len(readyState') = Len(readyState) + 1
            /\ ws' = Len(readyState')
            /\ readyState'[ws'] = "CONNECTING"
            /\ isConnected' = isConnected
       /\ (~isConnected /\ isConnected') => sttLast'.op = "open"]_vars

\* an OK response without a client_secret: connect() threw and holds no socket
C6_Witness ==
    /\ sttLast.op = "connect.settle"
    /\ sttLast.input.kind = "http"
    /\ sttLast.input.ok
    /\ sttLast.input.json
    /\ sttLast.input.client_secret = Null
    /\ sttLast.threw
    /\ ws = NoSocket

\* C7: every encoded value is a 16-bit value; NaN encodes to 0; a sample at or
\* below -1.0 encodes to -32768, at or above 1.0 to 32767, 0.0 to 0; a sample
\* strictly between is scaled by 32768 when negative and by 32767 otherwise,
\* and truncated toward zero.
C7_EncoderRange ==
    encOut.done =>
        \A i \in 1 .. Len(encIn.samples) :
            LET x == encIn.samples[i]
                y == encOut.pcm[i]
            IN  /\ y \in Int16Min .. Int16Max
                /\ x.nan => y = 0
                /\ (~x.nan /\ x.n <= -SampleDen) => y = -32768
                /\ (~x.nan /\ x.n >= SampleDen) => y = 32767
                /\ (~x.nan /\ x.n = 0) => y = 0
                /\ (~x.nan /\ -SampleDen < x.n /\ x.n < 0)
                      => /\ y <= 0
                         /\ (-y) * SampleDen <= (-x.n) * 32768
                         /\ (-x.n) * 32768 < (1 - y) * SampleDen
                /\ (~x.nan /\ 0 <= x.n /\ x.n < SampleDen)
                      => /\ y >= 0
                         /\ y * SampleDen <= x.n * 32767
                         /\ x.n * 32767 < (y + 1) * SampleDen

\* a buffer holding -1.0 and a sample beyond +1.0 was encoded
C7_Witness ==
    /\ encOut.done
    /\ Len(encIn.samples) = 2
    /\ encIn.samples[1] = Num(-SampleDen)
    /\ encIn.samples[2] = Num(MaxNumer)
    /\ encOut.pcm = <<-32768, 32767>>

\* C8: encode returns exactly as many 16-bit values as the buffer has samples
\* (2 bytes each, none for an empty buffer), and its i-th value is the value
\* encode gives the i-th sample alone.
C8_LengthAndOrder ==
    encOut.done =>
        /\ DOMAIN encOut.pcm = 1 .. Len(encIn.samples)
        /\ Len(BufferBytes(encOut.pcm)) = 2 * Len(encIn.samples)
        /\ \A i \in 1 .. Len(encIn.samples) :
              encOut.pcm[i] = encode(F32(<<encIn.samples[i]>>))[1]

\* a buffer of two samples with different encodings was encoded
C8_Witness ==
    /\ encOut.done
    /\ Len(encIn.samples) = 2
    /\ Len(encOut.pcm) = 2
    /\ encOut.pcm[1] # encOut.pcm[2]

\* C9: a cleanup() call that directly follows another cleanup() call, or the
\* completion of one, does not throw; and once cleanup() calls made in a row
\* have all completed, with no initialize() in flight, the engine holds no
\* worklet node, no media stream, no audio context and is not initialized.
CleanupOps == {"cleanup", "cleanup.settle"}
C9_IdempotentTeardown ==
    /\ (audLast.op = "cleanup" /\ audLast.prev \in CleanupOps) => ~audLast.threw
    /\ (/\ audLast.op \in CleanupOps
        /\ audLast.prev \in CleanupOps
        /\ cleanups = <<>>
        /\ initPc = <<>>)
          => /\ workletNode = NoObject
             /\ mediaStream = NoObject
             /\ audioContext = NoObject
             /\ ~isInitialized

\* C10: a transcription-completed message with a non-empty transcript t makes
\* exactly one callback, onFinalTranscript(t), after which the page's final text
\* is the old one followed by t and one space and the partial text is empty; a
\* text-delta message with a non-empty delta d makes exactly one callback,
\* onPartialTranscript(d), after which the partial text is d and the final
\* text is unchanged.
C10_FinalPartialIsolation ==
    [][/\ (/\ sttLast'.op = "message"
           /\ sttLast'.input.parse = "object"
           /\ sttLast'.input.type = Completed
           /\ Truthy(sttLast'.input.transcript))
         => /\ sttLast'.calls = <<Call("onFinalTranscript", sttLast'.input.transcript)>>
            /\ finalTranscript' = finalTranscript \o sttLast'.input.transcript \o " "
            /\ partialTranscript' = ""
       /\ (/\ sttLast'.op = "message"
           /\ sttLast'.input.parse = "object"
           /\ sttLast'.input.type = "response.text.delta"
           /\ Truthy(sttLast'.input.delta))
         => /\ sttLast'.calls = <<Call("onPartialTranscript", sttLast'.input.delta)>>
            /\ partialTranscript' = sttLast'.input.delta
            /\ finalTranscript' = finalTranscript]_vars

\* a second Final was appended to a non-empty final text
C10_Witness ==
    /\ sttLast.op = "message"
    /\ sttLast.input.parse = "object"
    /\ sttLast.input.type = Completed
    /\ finalTranscript = "hello hello "
    /\ partialTranscript = ""

\* C11: a disconnect() call, whatever the client's state before it, does not
\* throw, leaves the held socket (if any) CLOSING or CLOSED and every other
\* socket as it was, clears this.ws, leaves isConnected false and invokes
\* onConnectionStateChange(false) and nothing else; a disconnect() call that
\* directly follows another changes nothing of the client or its sockets.
C11_DisconnectIdempotent ==
    [][sttLast'.op = "disconnect"
         => /\ ~sttLast'.threw
            /\ ws' = NoSocket
            /\ ~isConnected'
            /\ sttLast'.calls = <<Call("onConnectionStateChange", FALSE)>>
            /\ \A s \in Sockets :
                  IF s = ws THEN readyState'[s] \in {"CLOSING", "CLOSED"}
                  ELSE readyState'[s] = readyState[s]
            /\ Len(readyState') = Len(readyState)
            /\ UNCHANGED <<reconnectAttempts, clientSecret, connectPc, wasOpened, wire, timers>>
            /\ sttLast.op = "disconnect" => UNCHANGED <<sttFields, sockVars>>]_vars

\* disconnect() was called on a client holding no socket, after an earlier
\* disconnect() had closed the socket of a Connected client
C11_Witness ==
    /\ sttLast.op = "disconnect"
    /\ sttLast.held = NoSocket
    /\ ~sttLast.conn
    /\ Len(readyState) >= 1
    /\ readyState[1] = "CLOSING"
    /\ wasOpened[1]

\* C12: a socket's open event leaves the client connected with the reconnect
\* counter 0 and invokes onConnectionStateChange(true) once and nothing else;
\* when the delay set by a socket's open event elapses, one session.update is
\* sent on that socket if it is still OPEN and nothing is sent otherwise; no
\* socket is ever sent more than one session.update.
SessionUpdatesOn(w, s) ==
    Cardinality({i \in 1 .. Len(w[s]) : w[s][i] = SessionUpdate})
C12_OneSessionUpdatePerSocket ==
    [][/\ sttLast'.op = "open"
         => /\ isConnected'
            /\ reconnectAttempts' = 0
            /\ sttLast'.calls = <<Call("onConnectionStateChange", TRUE)>>
       /\ sttLast'.op = "timer"
         => IF readyState[sttLast'.sock] = "OPEN"
            THEN /\ sttLast'.sends = <<SessionUpdate>>
                 /\ wire' = [wire EXCEPT ![sttLast'.sock] = @ \o <<SessionUpdate>>]
            ELSE /\ sttLast'.sends = <<>>
                 /\ wire' = wire
       /\ \A s \in 1 .. Len(wire') : SessionUpdatesOn(wire', s) <= 1]_vars

\* C13: in every state of an AudioManager, at most one MediaStream it acquired
\* still has a live track and at most one AudioWorkletNode it created is still
\* connected to the destination.
LiveStreams == {i \in 1 .. Len(trackLive) : trackLive[i]}
LiveGraphs  == {i \in 1 .. Len(nodeConnected) : nodeConnected[i]}
C13_SingleStreamAndGraph ==
    /\ Cardinality(LiveStreams) <= 1
    /\ Cardinality(LiveGraphs) <= 1

\* C14: every process() call handed a non-empty quantum posts exactly one
\* message carrying a copy of it and no other call posts; every message taken
\* from the port makes exactly one sink call, with that message's quantum; the
\* quanta delivered to the sink followed by those still in the port are the
\* quanta produced, each once and in production order; and the append frames
\* on every wire carry quanta the sink was called with, each at most once, in
\* production order.
KOf(audioData) == audioData.samples[1].n
AppendOf(k)    == AppendFrame(arrayBufferToBase64(encode(QuantumOf(k))))
AppendsOf(w)   == SelectSeq(w, IsAppend)
Appends        == [k \in 1 .. MaxQuanta |-> AppendOf(k)]
KOfFrame(f)    == CHOOSE k \in 1 .. MaxQuanta : f = Appends[k]
InProductionOrder ==
    /\ Len(sinkLog) + Len(port) = produced
    /\ \A i \in 1 .. Len(sinkLog) : KOf(sinkLog[i].audioData) = i
    /\ \A i \in 1 .. Len(port) : KOf(port[i].audioData) = Len(sinkLog) + i
WireInProductionOrder ==
    /\ \A s \in 1 .. Len(wire) :
          LET a == AppendsOf(wire[s]) IN
          /\ \A i \in 1 .. Len(a) : \E k \in 1 .. Len(sinkLog) : a[i] = Appends[k]
          /\ \A i, j \in 1 .. Len(a) : i < j => KOfFrame(a[i]) < KOfFrame(a[j])
    /\ \A s1, s2 \in 1 .. Len(wire) :
          \A i \in 1 .. Len(AppendsOf(wire[s1])), j \in 1 .. Len(AppendsOf(wire[s2])) :
             AppendsOf(wire[s1])[i] = AppendsOf(wire[s2])[j] => s1 = s2
C14_QuantumDelivery ==
    [][/\ produced' # produced
         => /\ produced' = produced + 1
            /\ nodeConnected[pageLast'.node]
            /\ port' = Append(port, AudioDataMessage(QuantumOf(produced'), pageLast'.node))
            /\ sinkLog' = sinkLog
       /\ Len(port') > Len(port) => produced' = produced + 1
       /\ Len(port') < Len(port)
         => /\ port' = Tail(port)
            /\ sinkLog' = Append(sinkLog, [node |-> Head(port).node,
                                          audioData |-> Head(port).audioData])
       /\ sinkLog' # sinkLog => Len(port') < Len(port)
       /\ InProductionOrder'
       /\ WireInProductionOrder']_vars

\* three quanta were produced and delivered: the first while the client was
\* not connected, the other two transmitted in order
C14_Witness ==
    /\ produced = 3
    /\ Len(sinkLog) = 3
    /\ Len(wire) = 1
    /\ AppendsOf(wire[1]) = <<Appends[2], Appends[3]>>

\* C15: when a send() throws inside sendAudioData, on the append or on the
\* commit, the call does not throw, invokes no callback (onError included) and
\* leaves isConnected, this.ws, every other client field and every socket's
\* readyState as they were; and every sendAudioData call made while
\* isConnected holds with a socket and a valid buffer calls send(), first with
\* the append frame of its buffer, whatever happened to the calls before it.
C15_SendFailureIsolated ==
    [][sttLast'.op = "sendAudioData"
         => /\ sttLast'.caught
                => /\ ~sttLast'.threw
                   /\ sttLast'.calls = <<>>
                   /\ UNCHANGED <<sttFields, readyState, wasOpened, timers, uiVars>>
            /\ (isConnected /\ ws # NoSocket /\ validateAudioData(sttLast'.input))
                => /\ sttLast'.sends # <<>>
                   /\ sttLast'.sends[1] = AudioFrames(sttLast'.input)[1]]_vars

\* the commit of one call threw after its append was transmitted, and the next
\* call transmitted both its frames on the same socket
C15_Witness ==
    /\ sttLast.op = "sendAudioData"
    /\ ~sttLast.caught
    /\ isConnected
    /\ ws # NoSocket
    /\ Len(wire[ws]) = 3
    /\ wire[ws][1].type = "input_audio_buffer.append"
    /\ wire[ws][2].type = "input_audio_buffer.append"
    /\ wire[ws][3].type = "input_audio_buffer.commit"

\* C16: handleMessage on an error event invokes onError once and nothing
\* else, with error.message if it is non-empty, else error.code if it is
\* non-empty, else the JSON text of the error if there is one, else
\* 'OpenAI error'; handleError invokes onError('WebSocket connection error')
\* once and nothing else; neither throws, calls send() or close(), or changes
\* a field of the client or a socket; and a sendAudioData call that follows
\* either on a Connected client with an OPEN socket transmits its two frames
\* unless one of its own send() calls throws.
C16_ErrorsAreSignalOnly ==
    [][/\ (sttLast'.op = "message" /\ sttLast'.input \in ErrorPayloads)
           => LET e == sttLast'.input.error IN
              /\ Len(sttLast'.calls) = 1
              /\ sttLast'.calls[1].cb = "onError"
              /\ (e.present /\ Truthy(e.message)) => sttLast'.calls[1].arg = e.message
              /\ (e.present /\ ~Truthy(e.message) /\ Truthy(e.code))
                    => sttLast'.calls[1].arg = e.code
              /\ (e.present /\ ~Truthy(e.message) /\ ~Truthy(e.code))
                    => sttLast'.calls[1].arg = "{}"
              /\ ~e.present => sttLast'.calls[1].arg = "OpenAI error"
              /\ ~sttLast'.threw
              /\ sttLast'.sends = <<>>
              /\ UNCHANGED <<sttFields, sockVars>>
       /\ sttLast'.op = "error"
           => /\ sttLast'.calls = <<Call("onError", "WebSocket connection error")>>
              /\ ~sttLast'.threw
              /\ sttLast'.sends = <<>>
              /\ UNCHANGED <<sttFields, sockVars>>
       /\ (/\ sttLast.op \in {"message", "error"}
           /\ sttLast'.op = "sendAudioData"
           /\ sttLast.conn
           /\ sttLast.held # NoSocket
           /\ readyState[sttLast.held] = "OPEN"
           /\ ~sttLast'.caught)
           => /\ ws = sttLast.held
              /\ wire'[ws] = wire[ws] \o AudioFrames(sttLast'.input)]_vars

\* a frame pair was transmitted right after a socket error event, itself after
\* a service error event without message whose code the page shows
C16_Witness ==
    /\ sttLast.op = "sendAudioData"
    /\ ~sttLast.caught
    /\ error = "WebSocket connection error"
    /\ isConnected
    /\ connectionStatus = "connected"
    /\ Len(wire[1]) = 4
    /\ wire[1][3] = AppendFrame(arrayBufferToBase64(encode(ErrorAudio)))
    /\ wire[1][4] = CommitFrame

\* the payloads the claim names as ignored: text that does not parse (or parses
\* to null), session.created and session.updated, types outside the three the
\* switch handles, and transcripts or deltas that are absent or empty
Ignored(payload) ==
    \/ payload.parse # "object"
    \/ payload.type \notin {Completed, "response.text.delta", "error"}
    \/ payload.type = Completed /\ ~Truthy(payload.transcript)
    \/ payload.type = "response.text.delta" /\ ~Truthy(payload.delta)

\* C17: handleMessage, for every inbound payload, leaves isConnected, this.ws
\* and every other field of the client, every socket's readyState and the
\* page's connection status as they were, calls send() with nothing, transmits
\* nothing and does not throw; for an ignored payload it also invokes no
\* callback and leaves the page state as it was.
C17_MessagesLeaveSession ==
    [][sttLast'.op = "message"
         => /\ UNCHANGED <<sttFields, sockVars, connectionStatus>>
            /\ sttLast'.sends = <<>>
            /\ ~sttLast'.threw
            /\ Ignored(sttLast'.input)
                 => /\ sttLast'.calls = <<>>
                    /\ UNCHANGED uiVars]_vars

\* text that does not parse arrived on a Connected client after a Final
\* transcript had been delivered, with a partial one pending
C17_Witness ==
    /\ sttLast.op = "message"
    /\ sttLast.input.parse = "fail"
    /\ sttLast.conn
    /\ finalTranscript = "hello "
    /\ partialTranscript = "wor"
    /\ connectionStatus = "connected"

\* C18: reconnectAttempts is 0 in every reachable state; a handleClose or
\* handleError step starts no token request, creates no socket and leaves
\* this.ws and the client secret as they were; a token request starts only in
\* a connect() call, and a socket is created only when the token request of a
\* connect() call settles.
C18_NoAutoReconnect ==
    /\ [](reconnectAttempts = 0)
    /\ [][/\ sttLast'.op \in {"close", "error"}
              => /\ UNCHANGED <<connectPc, ws, clientSecret, wasOpened, wire>>
                 /\ Len(readyState') = Len(readyState)
          /\ (connectPc' = "fetching" /\ connectPc # "fetching")
              => sttLast'.op = "connect"
          /\ Len(readyState') # Len(readyState)
              => /\ sttLast'.op = "connect.settle"
                 /\ connectPc = "fetching"
                 /\ Len(readyState') = Len(readyState) + 1]_vars

\* the first socket opened and closed, and the second socket exists because
\* connect() was called again and its token request settled
C18_Witness ==
    /\ Len(readyState) = 2
    /\ readyState[1] = "CLOSED"
    /\ wasOpened[1]
    /\ sttLast.op = "connect.settle"
    /\ sttLast.sock = 2
    /\ connectPc = "idle"
    /\ reconnectAttempts = 0

\* the sink was just called with a quantum of a node that stopStreaming() had
\* disconnected, and passed it to a sendAudioData call that called send()
SentAfterTeardown ==
    /\ pageLast.op = "sink"
    /\ ~pageLast.live
    /\ pageLast.acted
    /\ sttLast.op = "sendAudioData"
    /\ sttLast.input = pageLast.data
    /\ sttLast.sends # <<>>

\* C19: a quantum that reaches the sink after its node was disconnected by
\* stopStreaming() (called by handleStopRecording, or by cleanup() in the catch
\* block of handleStartRecording) is passed to no send() call on any socket,
\* the socket of a later handleStartRecording included.
C19_NoSendAfterTeardown == ~SentAfterTeardown

\* the last handleStartRecording ended in its catch block
FailedStart == pagePc = "idle" /\ pageErr # Null

\* after a failed start the page is not recording and disconnected, holds no
\* client, and the client it dropped holds no socket and is not connected
FailedStartDropsClient ==
    FailedStart
        => /\ ~isRecording
           /\ connectionStatus = "disconnected"
           /\ sttClientRef = 0
           /\ ws = NoSocket
           /\ ~isConnected

\* after a failed start, once no cleanup() is in flight, the engine is
\* uninitialized, holds no stream, context or node, and no track is live
FailedStartCleansEngine ==
    (FailedStart /\ cleanups = <<>>)
        => /\ ~isInitialized
           /\ mediaStream = NoObject
           /\ audioContext = NoObject
           /\ workletNode = NoObject
           /\ LiveStreams = {}
           /\ LiveGraphs = {}

\* the errors caught before line 86 constructs the client, and the sockets of
\* the client the failed attempt constructed, if it got that far
PreClientErrors ==
    {CapabilityMissing} \cup {ErrorMessage(n) : n \in GumResults \cup {Null}}
AttemptSockets == IF pageErr \in PreClientErrors THEN {} ELSE CurrentSockets

\* the catch block shows the error it received, and no later event of the
\* failed attempt's own client replaces it
FailedStartOneError ==
    [][/\ (pagePc = "catch" /\ pagePc' = "idle") => error' = pageErr
       /\ (/\ FailedStart /\ FailedStart'
           /\ sttLast' # sttLast
           /\ sttLast'.sock \in AttemptSockets)
           => error' = error]_vars

\* C20: when handleStartRecording fails (missing capability, getUserMedia or
\* addModule rejected, token request failed, startStreaming threw) the page
\* ends not recording and disconnected, the client it created is disconnected
\* and dropped, the engine ends uninitialized with no live track, and the
\* page shows the one error the catch block received: no further error of
\* that attempt replaces it.
C20_FailedStartCleansUp ==
    /\ []FailedStartDropsClient
    /\ []FailedStartCleansEngine
    /\ FailedStartOneError

\* a cleanup() call of this instance has closed an AudioContext and completed,
\* and no cleanup() is in flight
CleanupHasRun ==
    /\ cleanups = <<>>
    /\ \E c \in 1 .. Len(ctxState) : ctxState[c] = "closed"

\* C21: once a cleanup() call has closed the instance's AudioContext and
\* completed, the instance is never initialized again and never holds a
\* worklet node again, whatever initialize() and startStreaming() calls follow.
C21_NoReuseAfterCleanup ==
    CleanupHasRun => (~isInitialized /\ workletNode = NoObject)

\* the engine as initialize() promises it: the flag set, a stream whose track
\* is live, and a context that close() has not been called on
EngineReady ==
    /\ isInitialized
    /\ mediaStream # NoObject
    /\ trackLive[mediaStream]
    /\ audioContext # NoObject
    /\ ~ctxCtlClosed[audioContext]

\* C22: every initialize() call that resolves, at once because isInitialized
\* is set or when addModule settles, leaves the engine with isInitialized set,
\* a live stream and an open context, also while a cleanup() call is in
\* flight; and a startStreaming() call that directly follows it does not throw.
C22_InitializeMakesReady ==
    [][/\ (audLast'.op = "initialize" /\ isInitialized) => EngineReady'
       /\ (audLast'.op = "initialize.addModule" /\ ~audLast'.threw) => EngineReady'
       /\ (/\ audLast.op \in {"initialize", "initialize.addModule"}
           /\ ~audLast.threw
           /\ initPc = <<>>
           /\ audLast'.op = "startStreaming")
           => ~audLast'.threw]_vars

\* C23: on every socket, every input_audio_buffer.append frame transmitted is
\* preceded on that socket by the session.update frame.
C23_SessionUpdateFirst ==
    \A s \in 1 .. Len(wire) :
       \A i \in 1 .. Len(wire[s]) :
          IsAppend(wire[s][i]) => \E j \in 1 .. (i - 1) : wire[s][j] = SessionUpdate

\* C24: in every state of a client, isConnected implies that this.ws holds a
\* socket, that this socket has fired its open event, and that it has not
\* fired its close event.
C24_ConnectedHoldsOpenSocket ==
    isConnected
        => /\ ws # NoSocket
           /\ wasOpened[ws]
           /\ readyState[ws] # "CLOSED"

\* the sockets that are OPEN, of the client the page holds or of clients it
\* dropped
OpenSockets == {s \in Sockets : readyState[s] = "OPEN"}

\* C25: whenever the page is not recording and no handleStartRecording is in
\* progress, no worklet node is connected and delivering quanta to a sink and
\* no socket is OPEN, also after handleSTTError has reset isRecording; and
\* whenever the page is recording, at most one worklet node is connected and
\* at most one socket is OPEN.
C25_PageMatchesPipeline ==
    /\ (~isRecording /\ pagePc = "idle") => (LiveGraphs = {} /\ OpenSockets = {})
    /\ (isRecording /\ pagePc = "idle")
          => (Cardinality(LiveGraphs) <= 1 /\ Cardinality(OpenSockets) <= 1)

====
